---------------------------- MODULE Spec2Model ----------------------------
(***************************************************************************)
(* A model of install-tui.py (wit543/dotfiles): the three install          *)
(* sequencers (ProgressScreen._install_worker, RemoteProgressScreen.       *)
(* _deploy_worker, run_windows_setup), the process runners they call with  *)
(* the child processes these start, the registry loader load_machines and  *)
(* the screens that hand the sequencers their machine and selection.       *)
(*                                                                         *)
(* Python values: a dict is a sequence of [k, v] records in insertion      *)
(* order (DictSet keeps a key's position on re-assignment, as dict does);  *)
(* a machine entry is a function from the keys it has to strings; None is  *)
(* the string None; a text line is a sequence of one-character strings.    *)
(***************************************************************************)
EXTENDS Integers, Sequences, FiniteSets, TLC

(***************************************************************************)
(* Bounds of the model.                                                    *)
(***************************************************************************)
\* longest custom selection a user builds by toggling entries (the
\* preselected full catalogue is always available as well)
MaxCustom == 2
\* longest line of a one-line extensions file, over Alphabet
MaxLineLen == 3
\* most comment/blank lines among the twelve lines of a long extensions file
MaxSkipped == 3

(***************************************************************************)
(* Python helpers.                                                         *)
(***************************************************************************)
None == "<None>"

\* truthiness of a str-or-None value: `if password:`, `if not user`
Truthy(v) == v # None /\ v # ""

\* dict.get(key, default)
Get(d, key, default) == IF key \in DOMAIN d THEN d[key] ELSE default

\* the keys of a dict, as a set and in insertion order
Keys(d) == {d[n].k : n \in DOMAIN d}
KeySeq(d) == [n \in DOMAIN d |-> d[n].k]
HasKey(d, key) == \E n \in DOMAIN d : d[n].k = key
DictGet(d, key) == d[CHOOSE n \in DOMAIN d : d[n].k = key].v

\* d[key] = val
DictSet(d, key, val) ==
    IF HasKey(d, key)
    THEN [n \in DOMAIN d |-> IF d[n].k = key THEN [k |-> key, v |-> val] ELSE d[n]]
    ELSE Append(d, [k |-> key, v |-> val])

EmptyDict == <<>>

\* the characters str.strip() removes
IsSpace(c) == c \in {" ", "\t", "\n"}

\* str.strip()
RECURSIVE LStrip(_)
LStrip(s) == IF s # <<>> /\ IsSpace(s[1]) THEN LStrip(Tail(s)) ELSE s
RECURSIVE RStrip(_)
RStrip(s) == IF s # <<>> /\ IsSpace(s[Len(s)]) THEN RStrip(SubSeq(s, 1, Len(s) - 1)) ELSE s
Strip(s) == RStrip(LStrip(s))

Range(s) == {s[n] : n \in DOMAIN s}
NoDup(s) == \A m, n \in DOMAIN s : m # n => s[m] # s[n]
Min(a, b) == IF a < b THEN a ELSE b
IsPrefix(s, t) == Len(s) <= Len(t) /\ \A n \in DOMAIN s : s[n] = t[n]

\* all duplicate-free sequences over S of length at most n
RECURSIVE DupFreeSeqs(_, _)
DupFreeSeqs(S, n) ==
    IF n = 0 THEN {<<>>}
    ELSE LET shorter == DupFreeSeqs(S, n - 1)
         IN  shorter \cup {t \in {Append(s, x) : s \in shorter, x \in S} : NoDup(t)}

\* all sequences over S of length at most n
RECURSIVE SeqsUpTo(_, _)
SeqsUpTo(S, n) ==
    IF n = 0 THEN {<<>>}
    ELSE LET shorter == SeqsUpTo(S, n - 1)
         IN  shorter \cup {Append(s, x) : s \in shorter, x \in S}

(***************************************************************************)
(* CONFIGURATION: the catalogues.                                          *)
(***************************************************************************)
\* PROFILES[p]["components"], with "medium" listing git twice
PROFILES_MediumRepeatsGit ==
    [minimal |-> <<"zsh", "git", "editorconfig">>,
     medium  |-> <<"zsh", "vim", "tmux", "git", "git", "editorconfig">>,
     full    |-> <<"zsh", "vim", "tmux", "git", "vscode", "claude", "editorconfig">>]

\* PROFILES[p]["components"]
PROFILES ==
    [minimal |-> <<"zsh", "git", "editorconfig">>,
     medium  |-> <<"zsh", "vim", "tmux", "git", "editorconfig">>,
     full    |-> <<"zsh", "vim", "tmux", "git", "vscode", "claude", "editorconfig">>]

\* the ids of COMPONENTS, in catalogue order
COMPONENTS == <<"zsh", "vim", "tmux", "git", "vscode", "claude", "editorconfig">>

\* the ids of WINDOWS_COMPONENTS, in catalogue order
WINDOWS_COMPONENTS == <<"debloat", "telemetry", "system", "chrome", "vscode">>

\* the mode ids of INSTALL_MODES
INSTALL_MODES == <<"full", "config", "update">>

(***************************************************************************)
(* The environment: machines.yaml, process outcomes.                       *)
(***************************************************************************)
\* a "machines" mapping of machines.yaml with one entry of each kind: no os
\* tag; a password; an empty host and os tag; a null os tag; a Windows machine
\* with a password; one with an empty password; one whose name contains the
\* text "machine-"
Registry ==
    ("machine-room" :> [user |-> "wit", host |-> "10.0.0.7", os |-> "linux"]) @@
    ("mac"    :> [user |-> "wit", host |-> "10.0.0.2"]) @@
    ("srv"    :> [user |-> "wit", host |-> "10.0.0.3", password |-> "s3cret",
                  os |-> "linux"]) @@
    ("nohost" :> [user |-> "wit", host |-> "", os |-> ""]) @@
    ("nullos" :> [user |-> "wit", host |-> "10.0.0.4", os |-> None]) @@
    ("pc"     :> [user |-> "wit", host |-> "10.0.0.5", password |-> "s3cret",
                  os |-> "Windows"]) @@
    ("win"    :> [user |-> "wit", host |-> "10.0.0.6", password |-> "",
                  os |-> "windows"])

\* a Python value of the kind yaml.safe_load produces for the "machines" key:
\* its type and, for a dict or a list, its entries
PyValue(type, entries) == [type |-> type, entries |-> entries]
NoEntries == [name \in {} |-> name]
PyNone == PyValue("NoneType", NoEntries)

\* bool(value): None, an empty dict and an empty list are falsy
PyTruthy(value) == value.type # "NoneType" /\ DOMAIN value.entries # {}

\* what load_machines finds: whether the yaml module was imported, whether
\* machines.yaml exists, can be opened and parses, the type and truthiness of
\* its top level, and what that holds under "machines"
Document(yaml, exists, readable, wellformed, top, truthy, has_machines, value) ==
    [yaml |-> yaml, exists |-> exists, readable |-> readable, wellformed |-> wellformed,
     top |-> top, truthy |-> truthy, has_machines |-> has_machines, value |-> value]

Documents ==
    { Document(FALSE, TRUE, TRUE, TRUE, "dict", TRUE, TRUE, PyValue("dict", Registry)),
      Document(TRUE, FALSE, FALSE, FALSE, "NoneType", FALSE, FALSE, PyNone),
      Document(TRUE, TRUE, FALSE, TRUE, "dict", TRUE, TRUE, PyValue("dict", Registry)),
      Document(TRUE, TRUE, TRUE, FALSE, "NoneType", FALSE, FALSE, PyNone),
      Document(TRUE, TRUE, TRUE, TRUE, "NoneType", FALSE, FALSE, PyNone),
      Document(TRUE, TRUE, TRUE, TRUE, "list", FALSE, FALSE, PyNone),
      Document(TRUE, TRUE, TRUE, TRUE, "list", TRUE, FALSE, PyNone),
      Document(TRUE, TRUE, TRUE, TRUE, "str", TRUE, FALSE, PyNone),
      Document(TRUE, TRUE, TRUE, TRUE, "dict", FALSE, FALSE, PyNone),
      Document(TRUE, TRUE, TRUE, TRUE, "dict", TRUE, FALSE, PyNone),
      Document(TRUE, TRUE, TRUE, TRUE, "dict", TRUE, TRUE, PyNone),
      Document(TRUE, TRUE, TRUE, TRUE, "dict", TRUE, TRUE, PyValue("list", Registry)),
      Document(TRUE, TRUE, TRUE, TRUE, "dict", TRUE, TRUE, PyValue("dict", NoEntries)),
      Document(TRUE, TRUE, TRUE, TRUE, "dict", TRUE, TRUE, PyValue("dict", Registry)) }

\* load_machines(): {} without yaml, without the file and on any exception
\* (open or safe_load raising, data.get on a top level that is not a dict);
\* else data.get("machines", {}) if data else {}
load_machines(doc) ==
    LET empty == PyValue("dict", NoEntries)
    IN  IF ~doc.yaml THEN empty
        ELSE IF ~doc.exists THEN empty
        ELSE IF ~doc.readable \/ ~doc.wellformed THEN empty
        ELSE IF ~doc.truthy THEN empty
        ELSE IF doc.top # "dict" THEN empty
        ELSE IF doc.has_machines THEN doc.value
        ELSE empty

\* the characters of the machine names, for the operations that look inside
\* a name
Spell ==
    ("mac"    :> <<"m", "a", "c">>) @@
    ("srv"    :> <<"s", "r", "v">>) @@
    ("nohost" :> <<"n", "o", "h", "o", "s", "t">>) @@
    ("nullos" :> <<"n", "u", "l", "l", "o", "s">>) @@
    ("pc"     :> <<"p", "c">>) @@
    ("win"    :> <<"w", "i", "n">>) @@
    ("machine-room" :> <<"m", "a", "c", "h", "i", "n", "e", "-", "r", "o", "o", "m">>)

\* the text "machine-" of the button ids
MachinePrefix == <<"m", "a", "c", "h", "i", "n", "e", "-">>

\* id=f"machine-{name}"
button_id(name) == MachinePrefix \o Spell[name]

\* str.replace(old, ""): every non-overlapping occurrence of old, found from
\* the left, is removed
RECURSIVE Replace(_, _)
Replace(s, old) ==
    IF s = <<>> THEN <<>>
    ELSE IF IsPrefix(old, s) THEN Replace(SubSeq(s, Len(old) + 1, Len(s)), old)
    ELSE <<Head(s)>> \o Replace(Tail(s), old)

\* machines.get(machine_name, {}) for a name given by its characters
machines_get(entries, machine_name) ==
    IF \E key \in DOMAIN entries : Spell[key] = machine_name
    THEN entries[CHOOSE key \in DOMAIN entries : Spell[key] = machine_name]
    ELSE NoEntries

\* str.lower() on the os tags that occur
Lower(s) == CASE s = "Windows" -> "windows"
              [] s = "WINDOWS" -> "windows"
              [] OTHER -> s

\* what subprocess.Popen(argv) does: it starts the program, or raises
\* FileNotFoundError when the executable cannot be located
SpawnOutcomes == {"started", "notfound"}

\* process.returncode of a process that ran
ExitCodes == {0, 1}

(***************************************************************************)
(* State.                                                                  *)
(***************************************************************************)
VARIABLES
    screen,               \* the screen on top of the app's screen stack
    target_mode,          \* DotfilesInstaller.target_mode
    selected_machine,     \* DotfilesInstaller.selected_machine
    selected_components,  \* DotfilesInstaller.selected_components
    install_mode,         \* DotfilesInstaller.install_mode
    install_results,      \* DotfilesInstaller.install_results
    profile,              \* the profile id the last confirmation read from the RadioSet
    sequencer,            \* which worker runs: "none", "local", "unix", "windows"
    pc,                   \* the worker's position
    i,                    \* 1-based position in components (enumerate's i is i - 1)
    total,                \* total = len(components)
    results,              \* the worker's local results dict
    returncode,           \* returncode of the rsync process, -1 before it has run
    trace,                \* what the sequencer has done so far, in order
    j,                    \* position inside a Windows bundle's command list
    removed,              \* debloat's counter of removal commands that succeeded
    success,              \* chrome/vscode: what the winget command returned
    extFile,              \* the lines of extensions.txt read by the vscode bundle
    extensions,           \* the parsed extension ids
    issued,               \* the extension ids for which an install command was issued
    running,              \* TRUE while a subprocess started by run_windows_setup runs
    machines,             \* what load_machines() returns while this app runs
    warning,              \* the text of the warning toast on the screen, "" without one
    children,             \* the argv of each child process started and not yet waited for
    process,              \* the Popen object of the latest Process Runner call
    log,                  \* the lines that call has passed to log_callback, in order
    returned              \* <<value>> once that call has returned value, <<>> before

vars == <<screen, target_mode, selected_machine, selected_components, install_mode,
          install_results, profile, sequencer, pc, i, total, results, returncode,
          trace, j, removed, success, extFile, extensions, issued, running,
          machines, warning, children, process, log, returned>>

appVars == <<target_mode, selected_machine, selected_components, install_mode,
             install_results>>
workerVars == <<pc, i, total, results, returncode, trace>>
winVars == <<j, removed, success, extFile, extensions, issued, running>>
runnerVars == <<children, process, log, returned>>

\* a Process Runner call that has not created its Popen object
NoProcess == [started |-> FALSE, out |-> <<>>, code |-> -1]

\* DotfilesInstaller.__init__, in an environment with some machines.yaml
Init ==
    /\ screen = "app"
    /\ target_mode = "local"
    /\ selected_machine = <<>>
    /\ selected_components = <<>>
    /\ install_mode = "full"
    /\ install_results = EmptyDict
    /\ profile = ""
    /\ sequencer = "none"
    /\ pc = "idle"
    /\ i = 0
    /\ total = 0
    /\ results = EmptyDict
    /\ returncode = -1
    /\ trace = <<>>
    /\ j = 0
    /\ removed = 0
    /\ success = FALSE
    /\ extFile = <<>>
    /\ extensions = <<>>
    /\ issued = <<>>
    /\ running = FALSE
    /\ \E doc \in Documents : machines = load_machines(doc)
    /\ warning = ""
    /\ children = <<>>
    /\ process = NoProcess
    /\ log = <<>>
    /\ returned = <<>>

\* an entry of the sequencer's history
Event(ev, comp, idx, n) == [ev |-> ev, comp |-> comp, idx |-> idx, total |-> n]

\* the components of the trace's entries of one kind, in order
RECURSIVE Select(_, _)
Select(t, ev) ==
    IF t = <<>> THEN <<>>
    ELSE IF t[1].ev = ev THEN <<t[1]>> \o Select(Tail(t), ev)
         ELSE Select(Tail(t), ev)
Comps(t) == [n \in DOMAIN t |-> t[n].comp]
Invoked == Comps(Select(trace, "call"))

(***************************************************************************)
(* SCREENS: the handlers that choose the target and the selection.         *)
(***************************************************************************)
\* what SelectionList.selected can hold for a catalogue: the entries the user
\* left selected, in the order they were selected
Selections(catalogue) ==
    DupFreeSeqs(Range(catalogue), MaxCustom) \cup {catalogue}

\* push_screen of a progress screen: its on_mount starts the worker
StartWorker(which) ==
    /\ sequencer' = which
    /\ pc' = "start"
    /\ UNCHANGED <<i, total, results, returncode, trace>>

\* len(value): None has no len()
HasLen(value) == value.type # "NoneType"

\* value.items(), value.get(): only a dict has them
HasItems(value) == value.type = "dict"

\* DotfilesInstaller.on_mount: push_screen(WelcomeScreen()), whose compose
\* shows len(machines); an exception in a handler ends the app with a traceback
Mount ==
    /\ screen = "app"
    /\ screen' = IF HasLen(machines) THEN "welcome" ELSE "traceback"
    /\ warning' = ""
    /\ UNCHANGED <<appVars, profile, machines, sequencer, workerVars, winVars,
                   runnerVars>>

\* WelcomeScreen.on_button_pressed "local" / action_continue
WelcomeLocal ==
    /\ screen = "welcome"
    /\ target_mode' = "local"
    /\ screen' = "profile"
    /\ warning' = ""
    /\ UNCHANGED <<selected_machine, selected_components, install_mode, install_results,
                   profile, machines, sequencer, workerVars, winVars, runnerVars>>

\* WelcomeScreen.on_button_pressed "remote"; MachineSelectScreen.compose
\* iterates machines.items()
WelcomeRemote ==
    /\ screen = "welcome"
    /\ IF ~PyTruthy(machines)
       THEN /\ warning' = "No machines configured. Create machines.yaml first."
            /\ UNCHANGED <<target_mode, screen>>
       ELSE /\ target_mode' = "remote"
            /\ screen' = IF HasItems(machines) THEN "machine" ELSE "traceback"
            /\ warning' = ""
    /\ UNCHANGED <<selected_machine, selected_components, install_mode, install_results,
                   profile, machines, sequencer, workerVars, winVars, runnerVars>>

\* MachineSelectScreen.on_button_pressed for the button compose made for the
\* registry key `name`: the name is taken back out of the button id, looked up
\* and stored under "name"; None, the value of a null os tag, has no lower()
MachineButtonPressed(name) ==
    /\ screen = "machine"
    /\ IsPrefix(MachinePrefix, button_id(name))
    /\ LET machine_name == Replace(button_id(name), MachinePrefix)
           machine == [name |-> machine_name] @@ machines_get(machines.entries, machine_name)
           os == Get(machine, "os", "")
       IN  /\ selected_machine' = machine
           /\ screen' = IF os = None THEN "traceback"
                        ELSE IF Lower(os) = "windows" THEN "windows_component"
                        ELSE "remote_profile"
    /\ warning' = ""
    /\ UNCHANGED <<target_mode, selected_components, install_mode, install_results,
                   profile, machines, sequencer, workerVars, winVars, runnerVars>>

\* one of the buttons MachineSelectScreen.compose made, pressed
MachineSelect == \E name \in DOMAIN machines.entries : MachineButtonPressed(name)

\* ProfileScreen._continue
ProfileContinue ==
    /\ screen = "profile"
    /\ \E p \in {"full", "medium", "minimal", "custom"}, mode \in Range(INSTALL_MODES) :
         /\ profile' = p
         /\ install_mode' = mode
         /\ IF p = "custom"
            THEN /\ screen' = "component"
                 /\ UNCHANGED <<selected_components, sequencer, workerVars>>
            ELSE /\ selected_components' = PROFILES[p]
                 /\ screen' = "progress"
                 /\ StartWorker("local")
    /\ warning' = ""
    /\ UNCHANGED <<target_mode, selected_machine, install_results, machines, winVars,
                   runnerVars>>

\* a confirmation that treats no selection as empty
NothingSelected_Never(selected) == FALSE

\* `if not self.app.selected_components`
NothingSelected(selected) == selected = <<>>

\* ComponentScreen._install
ComponentInstall ==
    /\ screen = "component"
    /\ \E selected \in Selections(COMPONENTS) :
         /\ selected_components' = selected
         /\ IF NothingSelected(selected)
            THEN /\ warning' = "Please select at least one component"
                 /\ UNCHANGED <<screen, sequencer, workerVars>>
            ELSE /\ screen' = "progress"
                 /\ warning' = ""
                 /\ StartWorker("local")
    /\ UNCHANGED <<target_mode, selected_machine, install_mode, install_results,
                   profile, machines, winVars, runnerVars>>

\* RemoteProfileScreen.on_button_pressed "deploy"
RemoteProfileDeploy ==
    /\ screen = "remote_profile"
    /\ \E p \in {"full", "medium", "minimal"} :
         /\ profile' = p
         /\ selected_components' = PROFILES[p]
    /\ install_mode' = "full"
    /\ screen' = "remote_progress"
    /\ warning' = ""
    /\ StartWorker("unix")
    /\ UNCHANGED <<target_mode, selected_machine, install_results, machines, winVars,
                   runnerVars>>

\* WindowsComponentScreen.on_button_pressed "deploy"
WindowsDeploy ==
    /\ screen = "windows_component"
    /\ \E selected \in Selections(WINDOWS_COMPONENTS) :
         /\ selected_components' = selected
         /\ IF NothingSelected(selected)
            THEN /\ warning' = "Please select at least one component"
                 /\ UNCHANGED <<screen, sequencer, workerVars>>
            ELSE /\ screen' = "windows_progress"
                 /\ warning' = ""
                 /\ StartWorker("windows")
    /\ UNCHANGED <<target_mode, selected_machine, install_mode, install_results,
                   profile, machines, winVars, runnerVars>>

(***************************************************************************)
(* Child processes. A child of run_setup_function or run_remote_command is  *)
(* followed line by line; a child of rsync, run_ssh or scp from its start   *)
(* to its exit.                                                             *)
(***************************************************************************)
\* two lines of output: one that ends in white space, and an empty one
LineOk == <<"o", "k", " ", "\n">>
LineBlank == <<"\n">>

\* what a setup function may print, stdout and stderr merged: setup_zsh up to
\* two lines, the other setup functions nothing
Outputs(component) ==
    IF component = "zsh" THEN {<<>>, <<LineOk>>, <<LineOk, LineBlank>>} ELSE {<<>>}

\* subprocess.Popen(argv, stdout=PIPE, stderr=STDOUT, text=True) that found
\* its executable
Popen == [started |-> TRUE, out |-> <<>>, code |-> -1]

\* the child has terminated: wait() returns at once
Terminated(p) == p.code # -1

\* process.wait() that leaves the child behind
Wait_NoReap(procs) == procs

\* process.wait(): the child started last is no longer running
Wait(procs) == SubSeq(procs, 1, Len(procs) - 1)

\* the callback that puts the newest line first
Callback_Prepend(lines, line) == <<RStrip(line)>> \o lines

\* log_callback(line.rstrip())
Callback(lines, line) == Append(lines, RStrip(line))

\* `for line in process.stdout` is at end of file: the child has exited and
\* every line it wrote has been read
AtEOF(p, lines) == Terminated(p) /\ Len(lines) = Len(p.out)

\* the child of the running Process Runner call writes a line
ChildWrite ==
    /\ sequencer \in {"local", "unix"} /\ pc = "wait"
    /\ ~Terminated(process)
    /\ \E line \in {LineOk, LineBlank} :
         /\ \E o \in Outputs(selected_components[i]) : IsPrefix(Append(process.out, line), o)
         /\ process' = [process EXCEPT !.out = Append(@, line)]
    /\ UNCHANGED <<screen, appVars, profile, machines, warning, sequencer, workerVars,
                   winVars, children, log, returned>>

\* the child of the running Process Runner call exits
ChildExit ==
    /\ sequencer \in {"local", "unix"} /\ pc = "wait"
    /\ ~Terminated(process)
    /\ \E rc \in ExitCodes : process' = [process EXCEPT !.code = rc]
    /\ UNCHANGED <<screen, appVars, profile, machines, warning, sequencer, workerVars,
                   winVars, children, log, returned>>

(***************************************************************************)
(* Process Runner, local shape.                                            *)
(***************************************************************************)
\* mode_setup
mode_setup(mode) ==
    CASE mode = "config" -> "USE_SUDO=false; UPDATE_MODE=false"
      [] mode = "update" -> "USE_SUDO=true; UPDATE_MODE=true"
      [] OTHER           -> "USE_SUDO=true; UPDATE_MODE=false"

\* ["bash", "-c", script], the script by its two variable lines
bash_cmd(component, mode) == <<"bash", "-c", <<mode_setup(mode), "setup_", component>>>>

\* run_setup_function's return value for a process that ran
run_setup_function(rc) == rc = 0

\* results[component] = success, written only for a success
RecordOutcome_OnlySuccess(d, component, ok) ==
    IF ok THEN DictSet(d, component, ok) ELSE d

\* results[component] = success
RecordOutcome(d, component, ok) == DictSet(d, component, ok)

\* a 1-based index in place of enumerate()'s
EnumIndex_OneBased(n) == n

\* the index enumerate() yields for the 1-based position n
EnumIndex(n) == n - 1

(***************************************************************************)
(* ProgressScreen._install_worker                                          *)
(***************************************************************************)
\* components, mode, total, results = ...
InstallWorkerBegin ==
    /\ sequencer = "local" /\ pc = "start"
    /\ total' = Len(selected_components)
    /\ results' = EmptyDict
    /\ i' = 1
    /\ pc' = "loop"
    /\ UNCHANGED <<screen, appVars, profile, machines, warning, sequencer, returncode,
                   trace, winVars, runnerVars>>

\* status.update / progress.update at the head of the loop body
InstallWorkerProgress ==
    /\ sequencer = "local" /\ pc = "loop" /\ i <= total
    /\ trace' = Append(trace, Event("progress", selected_components[i], EnumIndex(i), total))
    /\ pc' = "call"
    /\ UNCHANGED <<screen, appVars, profile, machines, warning, sequencer, i, total,
                   results, returncode, winVars, runnerVars>>

\* run_setup_function: subprocess.Popen(["bash", "-c", script]); FileNotFoundError
\* is not caught, neither here nor in the worker
InstallWorkerCall ==
    /\ sequencer = "local" /\ pc = "call"
    /\ trace' = Append(trace, Event("call", selected_components[i], EnumIndex(i), total))
    /\ log' = <<>>
    /\ returned' = <<>>
    /\ \E spawn \in SpawnOutcomes :
         IF spawn = "started"
         THEN /\ process' = Popen
              /\ children' = Append(children, bash_cmd(selected_components[i], install_mode))
              /\ pc' = "wait"
         ELSE /\ process' = NoProcess
              /\ pc' = "crashed"
              /\ UNCHANGED children
    /\ UNCHANGED <<screen, appVars, profile, machines, warning, sequencer, i, total,
                   results, returncode, winVars>>

\* run_setup_function: `for line in process.stdout: log_callback(line.rstrip())`
InstallWorkerRead ==
    /\ sequencer = "local" /\ pc = "wait"
    /\ Len(log) < Len(process.out)
    /\ log' = Callback(log, process.out[Len(log) + 1])
    /\ UNCHANGED <<screen, appVars, profile, machines, warning, sequencer, workerVars,
                   winVars, children, process, returned>>

\* process.wait(); return process.returncode == 0; results[component] = success
InstallWorkerReturn ==
    /\ sequencer = "local" /\ pc = "wait"
    /\ AtEOF(process, log)
    /\ children' = Wait(children)
    /\ returned' = <<run_setup_function(process.code)>>
    /\ results' = RecordOutcome(results, selected_components[i],
                                run_setup_function(process.code))
    /\ trace' = Append(trace, Event("return", selected_components[i], EnumIndex(i), total))
    /\ i' = i + 1
    /\ pc' = "loop"
    /\ UNCHANGED <<screen, appVars, profile, machines, warning, sequencer, total,
                   returncode, winVars, process, log>>

\* after the loop: install_results = results; push_screen(CompleteScreen())
InstallWorkerFinish ==
    /\ sequencer = "local" /\ pc = "loop" /\ i > total
    /\ install_results' = results
    /\ screen' = "complete"
    /\ pc' = "done"
    /\ UNCHANGED <<target_mode, selected_machine, selected_components, install_mode,
                   profile, machines, warning, sequencer, i, total, results, returncode,
                   trace, winVars, runnerVars>>

(***************************************************************************)
(* Process Runner, remote shape.                                           *)
(***************************************************************************)
\* `if not user or not host`
InvalidConfig(machine) ==
    \/ ~Truthy(Get(machine, "user", ""))
    \/ ~Truthy(Get(machine, "host", ""))

\* f"{user}@{host}"
ssh_target(machine) == <<Get(machine, "user", ""), "@", Get(machine, "host", "")>>

\* ssh_cmd that never takes the sshpass branch
ssh_cmd_NeverSshpass(machine, command) ==
    <<"ssh", "-o", "StrictHostKeyChecking=no", ssh_target(machine), command>>

\* ssh_cmd of run_remote_command and of run_ssh: `if password:` sshpass in
\* front of ssh, else ssh alone
ssh_cmd(machine, command) ==
    LET password == Get(machine, "password", None)
    IN  IF Truthy(password)
        THEN <<"sshpass", "-p", password, "ssh", "-o", "StrictHostKeyChecking=no",
               ssh_target(machine), command>>
        ELSE <<"ssh", "-o", "StrictHostKeyChecking=no", ssh_target(machine), command>>

\* remote_cmd, by its variable line
remote_cmd(component) == <<"cd ~/dotfiles", "setup_", component>>

\* log_callback("[red]Error: Invalid machine config[/red]")
InvalidConfigLine == <<"Error:", "Invalid", "machine", "config">>

\* the line logged in `except FileNotFoundError`
MissingDependencyLine(machine) ==
    IF Truthy(Get(machine, "password", None))
    THEN <<"Error:", "sshpass", "not", "installed.", "Run:", "brew", "install", "sshpass">>
    ELSE <<"Error:", "SSH", "not", "available">>

\* run_remote_command's return value for a process that ran
run_remote_command(rc) == rc = 0

\* rsync_cmd, the words of the f-string; user and host are machine.get(...)
rsync_cmd(machine) ==
    <<"rsync", "-avz", "--exclude", "'.git'", "DOTFILES_DIR/",
      <<Get(machine, "user", None), "@", Get(machine, "host", None), ":~/dotfiles/">>>>

\* Popen(rsync_cmd, shell=True) runs the command line in a shell
shell_cmd(command) == <<"/bin/sh", "-c", command>>

\* the shell's exit status for a command it cannot find
CommandNotFound == 127

\* process.returncode of the shell that ran rsync_cmd
SyncExitCodes == ExitCodes \cup {CommandNotFound}

\* the returncode check without its effect: the worker goes on after a failed sync
SyncFailed_Ignored(rc) == FALSE

\* `if process.returncode != 0` after rsync
SyncFailed(rc) == rc # 0

\* the Result Map of a run whose sync failed
SyncSentinel == <<[k |-> "sync", v |-> FALSE]>>

(***************************************************************************)
(* RemoteProgressScreen._deploy_worker                                     *)
(***************************************************************************)
\* machine, components, results = ...
DeployWorkerBegin ==
    /\ sequencer = "unix" /\ pc = "start"
    /\ results' = EmptyDict
    /\ pc' = "sync"
    /\ UNCHANGED <<screen, appVars, profile, machines, warning, sequencer, i, total,
                   returncode, trace, winVars, runnerVars>>

\* subprocess.Popen(rsync_cmd, shell=True): the shell always starts
DeployWorkerSync ==
    /\ sequencer = "unix" /\ pc = "sync"
    /\ trace' = Append(trace, Event("sync", "sync", 0, 0))
    /\ children' = Append(children, shell_cmd(rsync_cmd(selected_machine)))
    /\ pc' = "sync_wait"
    /\ UNCHANGED <<screen, appVars, profile, machines, warning, sequencer, i, total,
                   results, returncode, winVars, process, log, returned>>

\* process.wait() and the check of its returncode
DeployWorkerSyncReturn ==
    /\ sequencer = "unix" /\ pc = "sync_wait"
    /\ children' = Wait(children)
    /\ \E rc \in SyncExitCodes :
         /\ returncode' = rc
         /\ IF SyncFailed(rc)
            THEN /\ install_results' = SyncSentinel
                 /\ screen' = "complete"
                 /\ pc' = "done"
                 /\ UNCHANGED <<i, total>>
            ELSE /\ total' = Len(selected_components)
                 /\ i' = 1
                 /\ pc' = "loop"
                 /\ UNCHANGED <<install_results, screen>>
    /\ UNCHANGED <<target_mode, selected_machine, selected_components, install_mode,
                   profile, machines, warning, sequencer, results, trace, winVars,
                   process, log, returned>>

\* status.update / progress.update at the head of the loop body
DeployWorkerProgress ==
    /\ sequencer = "unix" /\ pc = "loop" /\ i <= total
    /\ trace' = Append(trace, Event("progress", selected_components[i], EnumIndex(i), total))
    /\ pc' = "call"
    /\ UNCHANGED <<screen, appVars, profile, machines, warning, sequencer, i, total,
                   results, returncode, winVars, runnerVars>>

\* run_remote_command up to Popen: an invalid machine config and a missing
\* ssh/sshpass both log one line and return False at once
DeployWorkerCall ==
    /\ sequencer = "unix" /\ pc = "call"
    /\ \E spawn \in SpawnOutcomes :
         LET component == selected_components[i]
             called == Append(trace, Event("call", component, EnumIndex(i), total))
         IN  IF InvalidConfig(selected_machine) \/ spawn = "notfound"
             THEN /\ trace' = Append(called, Event("return", component, EnumIndex(i), total))
                  /\ log' = IF InvalidConfig(selected_machine)
                            THEN <<InvalidConfigLine>>
                            ELSE <<MissingDependencyLine(selected_machine)>>
                  /\ process' = NoProcess
                  /\ returned' = <<FALSE>>
                  /\ results' = RecordOutcome(results, component, FALSE)
                  /\ i' = i + 1
                  /\ pc' = "loop"
                  /\ UNCHANGED children
             ELSE /\ trace' = called
                  /\ log' = <<>>
                  /\ process' = Popen
                  /\ returned' = <<>>
                  /\ children' = Append(children,
                                        ssh_cmd(selected_machine, remote_cmd(component)))
                  /\ pc' = "wait"
                  /\ UNCHANGED <<i, results>>
    /\ UNCHANGED <<screen, appVars, profile, machines, warning, sequencer, total,
                   returncode, winVars>>

\* run_remote_command: `for line in process.stdout: log_callback(line.rstrip())`
DeployWorkerRead ==
    /\ sequencer = "unix" /\ pc = "wait"
    /\ Len(log) < Len(process.out)
    /\ log' = Callback(log, process.out[Len(log) + 1])
    /\ UNCHANGED <<screen, appVars, profile, machines, warning, sequencer, workerVars,
                   winVars, children, process, returned>>

\* process.wait(); return process.returncode == 0; results[component] = success
DeployWorkerReturn ==
    /\ sequencer = "unix" /\ pc = "wait"
    /\ AtEOF(process, log)
    /\ children' = Wait(children)
    /\ returned' = <<run_remote_command(process.code)>>
    /\ results' = RecordOutcome(results, selected_components[i],
                                run_remote_command(process.code))
    /\ trace' = Append(trace, Event("return", selected_components[i], EnumIndex(i), total))
    /\ i' = i + 1
    /\ pc' = "loop"
    /\ UNCHANGED <<screen, appVars, profile, machines, warning, sequencer, total,
                   returncode, winVars, process, log>>

\* after the loop: install_results = results; push_screen(CompleteScreen())
DeployWorkerFinish ==
    /\ sequencer = "unix" /\ pc = "loop" /\ i > total
    /\ install_results' = results
    /\ screen' = "complete"
    /\ pc' = "done"
    /\ UNCHANGED <<target_mode, selected_machine, selected_components, install_mode,
                   profile, machines, warning, sequencer, i, total, results, returncode,
                   trace, winVars, runnerVars>>

(***************************************************************************)
(* extensions.txt: text lines as sequences of one-character strings.       *)
(***************************************************************************)
\* str.startswith('#')
StartsWithHash(s) == s # <<>> /\ s[1] = "#"

\* str.split('#')[0]
RECURSIVE BeforeHash(_)
BeforeHash(s) ==
    IF s = <<>> \/ s[1] = "#" THEN <<>> ELSE <<s[1]>> \o BeforeHash(Tail(s))

\* the filter of the list comprehension, without its comment test
KeepLine_NoCommentTest(line) == Strip(line) # <<>>

\* `if line.strip() and not line.strip().startswith('#')`
KeepLine(line) == Strip(line) # <<>> /\ ~StartsWithHash(Strip(line))

\* [line.split('#')[0].strip() for line in f if ...]
RECURSIVE ParseExtensions(_)
ParseExtensions(f) ==
    IF f = <<>> THEN <<>>
    ELSE IF KeepLine(f[1])
         THEN <<Strip(BeforeHash(f[1]))>> \o ParseExtensions(Tail(f))
         ELSE ParseExtensions(Tail(f))

\* the cap of `extensions[:10]`
ExtensionCap == 10

\* extensions[:10], taking every entry
FirstTen_NoCap(exts) == exts

\* extensions[:10]
FirstTen(exts) == SubSeq(exts, 1, Min(ExtensionCap, Len(exts)))

\* `for line in f`: each line of the file with its line end
ReadLines(file) == [n \in DOMAIN file |-> Append(file[n], "\n")]

(***************************************************************************)
(* The contents extensions.txt may have.                                   *)
(***************************************************************************)
Alphabet == {"a", "#", " "}

RECURSIVE Lines(_)
Lines(n) ==
    IF n = 0 THEN {<<>>}
    ELSE Lines(n - 1) \cup {Append(l, c) : l \in Lines(n - 1), c \in Alphabet}

\* the empty file and every one-line file
OneLineFiles == {<<>>} \cup {<<l>> : l \in Lines(MaxLineLen)}

\* twelve-line files: line p names its own extension, written plainly, indented
\* or with a trailing comment, unless p is skipped: then it is a comment line
\* (odd p) or a blank line (even p). The skipped lines are among the first and
\* the last three.
LongPositions == 1 .. 12
SkipCandidates == (1 .. 3) \cup (10 .. 12)
ExtChar == <<"e01", "e02", "e03", "e04", "e05", "e06",
             "e07", "e08", "e09", "e10", "e11", "e12">>
LongLine(p, skipped) ==
    IF p \in skipped
    THEN CASE p % 4 = 1 -> <<"#", "c">>
           [] p % 4 = 3 -> <<" ", "#", " ", "c">>
           [] p % 4 = 2 -> <<>>
           [] OTHER     -> <<" ", " ">>
    ELSE CASE p % 3 = 1 -> <<ExtChar[p]>>
           [] p % 3 = 2 -> <<" ", ExtChar[p], "x", " ">>
           [] OTHER     -> <<ExtChar[p], " ", "#", "c">>
LongFiles ==
    {[p \in LongPositions |-> LongLine(p, skipped)] :
        skipped \in {T \in SUBSET SkipCandidates : Cardinality(T) <= MaxSkipped}}

ExtFiles == OneLineFiles \cup LongFiles

(***************************************************************************)
(* run_windows_setup                                                       *)
(***************************************************************************)
bloatware_apps ==
    <<"Clipchamp.Clipchamp", "Microsoft.549981C3F5F10", "Microsoft.BingNews",
      "Microsoft.BingWeather", "Microsoft.BingFinance", "Microsoft.BingSports",
      "Microsoft.MicrosoftSolitaireCollection", "Microsoft.SkypeApp",
      "Microsoft.MixedReality.Portal", "Microsoft.YourPhone", "Microsoft.ZuneMusic",
      "Microsoft.ZuneVideo", "Microsoft.Copilot", "Microsoft.WindowsFeedbackHub",
      "Facebook", "Instagram", "TikTok", "Twitter", "LinkedIn",
      "king.com.CandyCrush", "king.com.CandyCrushSaga", "Netflix", "Spotify",
      "Amazon.com.Amazon", "McAfee", "Duolingo">>

\* the run_ps calls of the telemetry bundle
telemetry_commands ==
    <<"AllowTelemetry", "AdvertisingInfo", "TurnOffWindowsCopilot",
      "DisableSearchBoxSuggestions", "SystemPaneSuggestionsEnabled",
      "SubscribedContent-338388Enabled">>

\* the run_ps calls of the system bundle
system_commands == <<"powercfg -h off", "CursorSize", "CursorBaseSize", "Windows Black">>

\* ["scp", str(src), f"{ssh_target}:C:/Users/{user}/AppData/Roaming/Code/User/<file>"]
scp_cmd(machine, file) ==
    <<"scp", file,
      <<ssh_target(machine), ":C:/Users/", Get(machine, "user", ""),
        "/AppData/Roaming/Code/User/", file>>>>

\* a best-effort bundle recording what its commands reported
BestEffort_Reported(ok) == ok

\* what a best-effort bundle records whatever its commands reported (ok):
\* results[component] = True
BestEffort(ok) == TRUE

\* chrome without the override of a failed install
ChromeOutcome_NoOverride(ok) == ok

\* chrome: results[component] = success, then True in the else branch
ChromeOutcome(ok) == IF ok THEN ok ELSE TRUE

\* an if/elif chain that ends in `else` with the system bundle
Branch_ElseSystem(component) ==
    CASE component = "debloat"   -> "debloat"
      [] component = "telemetry" -> "telemetry"
      [] component = "chrome"    -> "chrome"
      [] component = "vscode"    -> "vscode_winget"
      [] OTHER                   -> "system"

\* the branch of the if/elif chain a component takes
Branch(component) ==
    CASE component = "debloat"   -> "debloat"
      [] component = "telemetry" -> "telemetry"
      [] component = "system"    -> "system"
      [] component = "chrome"    -> "chrome"
      [] component = "vscode"    -> "vscode_winget"
      [] OTHER                   -> "w_loop"

\* WindowsProgressScreen._deploy_worker up to the call; results = {}
WindowsWorkerBegin ==
    /\ sequencer = "windows" /\ pc = "start"
    /\ results' = EmptyDict
    /\ i' = 1
    /\ pc' = "w_loop"
    /\ UNCHANGED <<screen, appVars, profile, machines, warning, sequencer, total,
                   returncode, trace, winVars, runnerVars>>

\* `for component in components`: the header lines and the branch taken. The
\* bundle-local variables are set again before a bundle reads them.
WinNext ==
    /\ sequencer = "windows" /\ pc = "w_loop" /\ i <= Len(selected_components)
    /\ LET component == selected_components[i]
       IN  /\ trace' = Append(trace, Event("call", component, EnumIndex(i),
                                           Len(selected_components)))
           /\ pc' = Branch(component)
           /\ i' = IF Branch(component) = "w_loop" THEN i + 1 ELSE i
    /\ j' = 1
    /\ removed' = 0
    /\ success' = FALSE
    /\ extFile' = <<>>
    /\ extensions' = <<>>
    /\ issued' = <<>>
    /\ UNCHANGED <<screen, appVars, profile, machines, warning, sequencer, total,
                   results, returncode, running, runnerVars>>

\* EndBundle storing the outcome under a status key instead of the component
EndBundle_StatusKey(outcome) ==
    /\ results' = RecordOutcome(results, IF outcome THEN "ok" ELSE "failed", outcome)
    /\ trace' = Append(trace, Event("return", selected_components[i], EnumIndex(i),
                                    Len(selected_components)))
    /\ i' = i + 1
    /\ pc' = "w_loop"

\* the end of a bundle: results[component] = outcome, on to the next component
EndBundle(outcome) ==
    /\ results' = RecordOutcome(results, selected_components[i], outcome)
    /\ trace' = Append(trace, Event("return", selected_components[i], EnumIndex(i),
                                    Len(selected_components)))
    /\ i' = i + 1
    /\ pc' = "w_loop"

\* run_ssh at the call site `site`, first half: Popen has started the process.
\* The command is named by its call site.
RunSshStart(site) ==
    /\ sequencer = "windows" /\ pc = site
    /\ ~running
    /\ \E spawn \in SpawnOutcomes : spawn = "started"
    /\ running' = TRUE
    /\ children' = Append(children, ssh_cmd(selected_machine, site))
    /\ UNCHANGED <<screen, appVars, profile, machines, warning, sequencer, pc, i, total,
                   results, returncode, trace, j, removed, success, extFile, extensions,
                   issued, process, log, returned>>

\* run_ssh at the call site `site` returns ok: False when Popen raised (any
\* exception is caught), else process.returncode == 0 after wait()
RunSshReturn(site, ok) ==
    /\ sequencer = "windows" /\ pc = site
    /\ IF running
       THEN \E rc \in ExitCodes : ok = (rc = 0)
       ELSE \E spawn \in SpawnOutcomes : spawn = "notfound" /\ ok = FALSE
    /\ running' = FALSE
    /\ children' = IF running THEN Wait(children) ELSE children
    /\ UNCHANGED <<screen, appVars, profile, machines, warning, sequencer, total,
                   returncode, process, log, returned>>

\* debloat: one removal command per app; `if result: removed += 1`
DebloatReturned(ok) ==
    /\ removed' = IF ok THEN removed + 1 ELSE removed
    /\ j' = j + 1
    /\ UNCHANGED <<pc, i, results, trace, success, extFile, extensions, issued>>
WinDebloatApp ==
    /\ j <= Len(bloatware_apps)
    /\ \/ RunSshStart("debloat")
       \/ \E ok \in BOOLEAN : RunSshReturn("debloat", ok) /\ DebloatReturned(ok)
WinDebloatDone ==
    /\ sequencer = "windows" /\ pc = "debloat" /\ j > Len(bloatware_apps)
    /\ EndBundle(BestEffort(removed > 0))
    /\ UNCHANGED <<screen, appVars, profile, machines, warning, sequencer, total,
                   returncode, winVars, runnerVars>>

\* telemetry: six commands, their results dropped
IgnoredReturned(ok) ==
    /\ j' = j + 1
    /\ UNCHANGED <<pc, i, results, trace, removed, success, extFile, extensions,
                   issued>>
WinTelemetryCommand ==
    /\ j <= Len(telemetry_commands)
    /\ \/ RunSshStart("telemetry")
       \/ \E ok \in BOOLEAN : RunSshReturn("telemetry", ok) /\ IgnoredReturned(ok)
WinTelemetryDone ==
    /\ sequencer = "windows" /\ pc = "telemetry" /\ j > Len(telemetry_commands)
    /\ EndBundle(TRUE)
    /\ UNCHANGED <<screen, appVars, profile, machines, warning, sequencer, total,
                   returncode, winVars, runnerVars>>

\* system: four commands, their results dropped
WinSystemCommand ==
    /\ j <= Len(system_commands)
    /\ \/ RunSshStart("system")
       \/ \E ok \in BOOLEAN : RunSshReturn("system", ok) /\ IgnoredReturned(ok)
WinSystemDone ==
    /\ sequencer = "windows" /\ pc = "system" /\ j > Len(system_commands)
    /\ EndBundle(TRUE)
    /\ UNCHANGED <<screen, appVars, profile, machines, warning, sequencer, total,
                   returncode, winVars, runnerVars>>

\* chrome: success = run_ps(winget ...); results[component] = success
ChromeReturned(ok) ==
    /\ success' = ok
    /\ results' = RecordOutcome(results, selected_components[i], ok)
    /\ pc' = "chrome_check"
    /\ UNCHANGED <<i, trace, j, removed, extFile, extensions, issued>>
WinChromeInstall ==
    /\ \/ RunSshStart("chrome")
       \/ \E ok \in BOOLEAN : RunSshReturn("chrome", ok) /\ ChromeReturned(ok)
\* `if success: ... else: ...; results[component] = True`
WinChromeCheck ==
    /\ sequencer = "windows" /\ pc = "chrome_check"
    /\ EndBundle(ChromeOutcome(success))
    /\ UNCHANGED <<screen, appVars, profile, machines, warning, sequencer, total,
                   returncode, winVars, runnerVars>>

\* vscode: success = run_ps(winget ...), only logged
VscodeWingetReturned(ok) ==
    /\ success' = ok
    /\ pc' = "vscode_mkdir"
    /\ UNCHANGED <<i, results, trace, j, removed, extFile, extensions, issued>>
WinVscodeInstall ==
    /\ \/ RunSshStart("vscode_winget")
       \/ \E ok \in BOOLEAN : RunSshReturn("vscode_winget", ok) /\ VscodeWingetReturned(ok)

\* vscode: run_ssh(New-Item ... Code\User), result dropped
VscodeMkdirReturned(ok) ==
    /\ pc' = "vscode_scp1"
    /\ UNCHANGED <<i, results, trace, j, removed, success, extFile, extensions, issued>>
WinVscodeMkdir ==
    /\ \/ RunSshStart("vscode_mkdir")
       \/ \E ok \in BOOLEAN : RunSshReturn("vscode_mkdir", ok) /\ VscodeMkdirReturned(ok)

\* vscode: the two subprocess.run(["scp", ...], check=False) inside try/except:
\* an scp that cannot be started raises, which skips what is left of the try block
WinVscodeCopy ==
    /\ sequencer = "windows" /\ pc \in {"vscode_scp1", "vscode_scp2"}
    /\ LET file == IF pc = "vscode_scp1" THEN "settings.json" ELSE "keybindings.json"
       IN  \/ /\ ~running
              /\ \E spawn \in SpawnOutcomes :
                   IF spawn = "started"
                   THEN /\ running' = TRUE
                        /\ children' = Append(children, scp_cmd(selected_machine, file))
                        /\ pc' = pc
                   ELSE /\ running' = FALSE
                        /\ pc' = "vscode_read"
                        /\ UNCHANGED children
           \/ /\ running
              /\ running' = FALSE
              /\ children' = Wait(children)
              /\ \E rc \in ExitCodes :
                   pc' = IF pc = "vscode_scp1" THEN "vscode_scp2" ELSE "vscode_read"
    /\ UNCHANGED <<screen, appVars, profile, machines, warning, sequencer, i, total,
                   results, returncode, trace, j, removed, success, extFile, extensions,
                   issued, process, log, returned>>

\* vscode: `if extensions_src.exists()` and the list comprehension over the file
WinVscodeRead ==
    /\ sequencer = "windows" /\ pc = "vscode_read"
    /\ \E exists \in BOOLEAN :
         IF exists
         THEN \E file \in ExtFiles :
                /\ extFile' = file
                /\ extensions' = ParseExtensions(ReadLines(file))
                /\ j' = 1
                /\ pc' = "vscode_ext"
         ELSE /\ pc' = "vscode_done"
              /\ UNCHANGED <<extFile, extensions, j>>
    /\ UNCHANGED <<screen, appVars, profile, machines, warning, sequencer, i, total,
                   results, returncode, trace, removed, success, issued, running,
                   runnerVars>>

\* vscode: `for ext in extensions[:10]: run_ps(code.cmd --install-extension ext)`
WinVscodeExtension ==
    /\ sequencer = "windows" /\ pc = "vscode_ext"
    /\ j <= Len(FirstTen(extensions))
    /\ \/ /\ ~running
          /\ issued' = Append(issued, FirstTen(extensions)[j])
          /\ \E spawn \in SpawnOutcomes :
               IF spawn = "started"
               THEN /\ running' = TRUE
                    /\ children' = Append(children, ssh_cmd(selected_machine, "vscode_ext"))
                    /\ j' = j
               ELSE /\ running' = FALSE
                    /\ j' = j + 1
                    /\ UNCHANGED children
       \/ /\ running
          /\ running' = FALSE
          /\ children' = Wait(children)
          /\ \E rc \in ExitCodes : j' = j + 1
          /\ UNCHANGED issued
    /\ UNCHANGED <<screen, appVars, profile, machines, warning, sequencer, pc, i, total,
                   results, returncode, trace, removed, success, extFile, extensions,
                   process, log, returned>>
WinVscodeExtensionsDone ==
    /\ sequencer = "windows" /\ pc = "vscode_ext"
    /\ j > Len(FirstTen(extensions))
    /\ pc' = "vscode_done"
    /\ UNCHANGED <<screen, appVars, profile, machines, warning, sequencer, i, total,
                   results, returncode, trace, winVars, runnerVars>>

\* vscode: results[component] = True
WinVscodeDone ==
    /\ sequencer = "windows" /\ pc = "vscode_done"
    /\ EndBundle(BestEffort(success))
    /\ UNCHANGED <<screen, appVars, profile, machines, warning, sequencer, total,
                   returncode, winVars, runnerVars>>

\* return results; install_results = results; push_screen(CompleteScreen())
WindowsWorkerFinish ==
    /\ sequencer = "windows" /\ pc = "w_loop" /\ i > Len(selected_components)
    /\ install_results' = results
    /\ screen' = "complete"
    /\ pc' = "done"
    /\ UNCHANGED <<target_mode, selected_machine, selected_components, install_mode,
                   profile, machines, warning, sequencer, i, total, results, returncode,
                   trace, winVars, runnerVars>>

Next ==
    \/ Mount
    \/ WelcomeLocal
    \/ WelcomeRemote
    \/ MachineSelect
    \/ ProfileContinue
    \/ ComponentInstall
    \/ RemoteProfileDeploy
    \/ WindowsDeploy
    \/ InstallWorkerBegin
    \/ InstallWorkerProgress
    \/ InstallWorkerCall
    \/ InstallWorkerRead
    \/ ChildWrite
    \/ ChildExit
    \/ InstallWorkerReturn
    \/ InstallWorkerFinish
    \/ DeployWorkerBegin
    \/ DeployWorkerSync
    \/ DeployWorkerSyncReturn
    \/ DeployWorkerProgress
    \/ DeployWorkerCall
    \/ DeployWorkerRead
    \/ DeployWorkerReturn
    \/ DeployWorkerFinish
    \/ WindowsWorkerBegin
    \/ WinNext
    \/ WinDebloatApp
    \/ WinDebloatDone
    \/ WinTelemetryCommand
    \/ WinTelemetryDone
    \/ WinSystemCommand
    \/ WinSystemDone
    \/ WinChromeInstall
    \/ WinChromeCheck
    \/ WinVscodeInstall
    \/ WinVscodeMkdir
    \/ WinVscodeCopy
    \/ WinVscodeRead
    \/ WinVscodeExtension
    \/ WinVscodeExtensionsDone
    \/ WinVscodeDone
    \/ WindowsWorkerFinish

Spec == Init /\ [][Next]_vars

\* the steps of the sequencers and of their child processes: a worker that has
\* been started keeps being scheduled, and a child that runs terminates
Worker ==
    \/ InstallWorkerBegin \/ InstallWorkerProgress \/ InstallWorkerCall
    \/ InstallWorkerRead \/ InstallWorkerReturn \/ InstallWorkerFinish
    \/ ChildWrite \/ ChildExit
    \/ DeployWorkerBegin \/ DeployWorkerSync \/ DeployWorkerSyncReturn
    \/ DeployWorkerProgress \/ DeployWorkerCall \/ DeployWorkerRead
    \/ DeployWorkerReturn \/ DeployWorkerFinish
    \/ WindowsWorkerBegin \/ WinNext
    \/ WinDebloatApp \/ WinDebloatDone \/ WinTelemetryCommand \/ WinTelemetryDone
    \/ WinSystemCommand \/ WinSystemDone \/ WinChromeInstall \/ WinChromeCheck
    \/ WinVscodeInstall \/ WinVscodeMkdir \/ WinVscodeCopy \/ WinVscodeRead
    \/ WinVscodeExtension \/ WinVscodeExtensionsDone \/ WinVscodeDone
    \/ WindowsWorkerFinish

FairSpec == Spec /\ WF_vars(Worker)

(***************************************************************************)
(* run_windows_setup on its own: the function called with a machine and    *)
(* any list of component ids, as WindowsProgressScreen._deploy_worker      *)
(* calls it. The list may repeat ids and hold ids outside the catalogue.   *)
(***************************************************************************)
\* an id that WINDOWS_COMPONENTS does not have
UnknownId == "fonts"

\* the ids a caller may pass
ComponentIds == Range(WINDOWS_COMPONENTS) \cup {UnknownId}

\* the `components` arguments
ComponentLists == SeqsUpTo(ComponentIds, MaxCustom)

\* the `machine` argument: a Windows entry of the registry, as selected
SetupMachine == [name |-> Spell["pc"]] @@ Registry["pc"]

\* the worker of a WindowsProgressScreen that was pushed with these arguments
\* in app.selected_machine and app.selected_components
SetupInit ==
    /\ screen = "windows_progress"
    /\ target_mode = "remote"
    /\ selected_machine = SetupMachine
    /\ selected_components \in ComponentLists
    /\ install_mode = "full"
    /\ install_results = EmptyDict
    /\ profile = ""
    /\ sequencer = "windows"
    /\ pc = "start"
    /\ i = 0
    /\ total = 0
    /\ results = EmptyDict
    /\ returncode = -1
    /\ trace = <<>>
    /\ j = 0
    /\ removed = 0
    /\ success = FALSE
    /\ extFile = <<>>
    /\ extensions = <<>>
    /\ issued = <<>>
    /\ running = FALSE
    /\ machines = PyValue("dict", Registry)
    /\ warning = ""
    /\ children = <<>>
    /\ process = NoProcess
    /\ log = <<>>
    /\ returned = <<>>

SetupNext ==
    \/ WindowsWorkerBegin
    \/ WinNext
    \/ WinDebloatApp
    \/ WinDebloatDone
    \/ WinTelemetryCommand
    \/ WinTelemetryDone
    \/ WinSystemCommand
    \/ WinSystemDone
    \/ WinChromeInstall
    \/ WinChromeCheck
    \/ WinVscodeInstall
    \/ WinVscodeMkdir
    \/ WinVscodeCopy
    \/ WinVscodeRead
    \/ WinVscodeExtension
    \/ WinVscodeExtensionsDone
    \/ WinVscodeDone
    \/ WindowsWorkerFinish

SetupSpec == SetupInit /\ [][SetupNext]_vars

(***************************************************************************)
(* Vocabulary of the properties.                                           *)
(***************************************************************************)
\* the run has delivered its Result Map: install_results is set and the
\* CompleteScreen pushed
Finished == pc = "done"

\* the Remote-Unix run's rsync has exited, with a non-zero / a zero code
SyncHasFailed == sequencer = "unix" /\ returncode > 0
SyncSucceeded == sequencer = "unix" /\ returncode = 0

\* the value a dict holds for a key it has
ValueOf(d, key) == DictGet(d, key)

\* a line of extensions.txt that is blank, a comment line, or neither
IsBlankLine(l) == \A n \in DOMAIN l : l[n] \in {" ", "\t"}
IsCommentLine(l) ==
    \E n \in DOMAIN l : l[n] = "#" /\ \A m \in 1 .. (n - 1) : l[m] \in {" ", "\t"}
IsUsableLine(l) == ~IsBlankLine(l) /\ ~IsCommentLine(l)

\* the extension id a usable line names: from its first character that is not
\* white space to its last one before any '#'
ExtensionId(l) ==
    LET solid(n) == l[n] \notin {" ", "\t"}
        first == CHOOSE n \in DOMAIN l : solid(n) /\ \A m \in 1 .. (n - 1) : ~solid(m)
        hash  == IF \E n \in DOMAIN l : l[n] = "#"
                 THEN CHOOSE n \in DOMAIN l : l[n] = "#" /\ \A m \in 1 .. (n - 1) : l[m] # "#"
                 ELSE Len(l) + 1
        last  == CHOOSE n \in 1 .. (hash - 1) :
                     solid(n) /\ \A m \in (n + 1) .. (hash - 1) : ~solid(m)
    IN  SubSeq(l, first, last)

\* the ids of a file's usable lines, in file order
UsableIds(f) ==
    LET usable == SelectSeq(f, IsUsableLine)
    IN  [n \in DOMAIN usable |-> ExtensionId(usable[n])]

\* a file of 12 entries, 2 of them comment lines and 1 blank
TwelveEntriesTwoCommentsOneBlank(f) ==
    /\ Len(f) = 12
    /\ Len(SelectSeq(f, IsCommentLine)) = 2
    /\ Len(SelectSeq(f, IsBlankLine)) = 1

\* the vscode bundle has finished its extension loop
ExtensionsInstalled == sequencer = "windows" /\ pc = "vscode_done"

(***************************************************************************)
(* Properties.                                                             *)
(***************************************************************************)
\* C1: a Local run, and a Remote-Unix run whose sync succeeded, whose setup
\* invocations all returned an exit code (0 or not, in any mix) finishes with a
\* Result Map whose key set is exactly the set of selected components, each key
\* once; the selection is non-empty and duplicate-free.
C1_ResultKeysAreSelection ==
    (Finished /\ (sequencer = "local" \/ SyncSucceeded)) =>
        /\ selected_components # <<>> /\ NoDup(selected_components)
        /\ Keys(install_results) = Range(selected_components)
        /\ Len(install_results) = Len(selected_components)
        /\ NoDup(KeySeq(install_results))

\* a Remote-Unix run finished after a mix of successes and failures
C1_Witness ==
    /\ Finished /\ SyncSucceeded
    /\ \E m, n \in DOMAIN install_results :
         install_results[m].v /\ ~install_results[n].v

\* C2: once the rsync of a Remote-Unix run has exited non-zero, the run is over,
\* its Result Map is exactly {"sync": False}, and run_remote_command has not
\* been and is not invoked for any component.
C2_SyncFailureAborts ==
    SyncHasFailed =>
        /\ Finished
        /\ install_results = SyncSentinel
        /\ Invoked = <<>>
        /\ results = EmptyDict

C2_Witness == SyncHasFailed /\ Finished /\ Len(selected_components) > 1

\* C3: in a Local run and, after a successful sync, a Remote-Unix run, the setup
\* routines are invoked once each in selection order, and the run ends, by
\* finishing or by the worker dying, only after the last selected component has
\* been attempted.
C3_EveryComponentAttempted ==
    (sequencer = "local" \/ SyncSucceeded) =>
        /\ IsPrefix(Invoked, selected_components)
        /\ pc \in {"done", "crashed"} => Invoked = selected_components

\* C4: the Local sequencer's history is progress(0,n), call, return,
\* progress(1,n), call, return, ... in selection order: the report for position
\* i comes before that component's invocation and after the return of the one
\* before it; a finished run has reported (0,n) .. (n-1,n), n the selection's size.
C4_ProgressBeforeEachInvocation ==
    sequencer = "local" =>
        LET n == Len(selected_components)
            step(m) == ((m - 1) \div 3) + 1
            kind(m) == <<"progress", "call", "return">>[((m - 1) % 3) + 1]
            want == [m \in 1 .. (3 * n) |->
                        [ev |-> kind(m), comp |-> selected_components[step(m)],
                         idx |-> step(m) - 1, total |-> n]]
        IN  /\ IsPrefix(trace, want)
            /\ Finished => trace = want

\* a finished Local run of a custom selection that is not in catalogue order
C4_Witness ==
    /\ sequencer = "local" /\ Finished
    /\ selected_components = <<"git", "zsh">>
    /\ Len(Select(trace, "progress")) = 2

\* C5 as stated: every key of the Result Map is a selected component, no
\* component is invoked or recorded twice, and at the end of the run every
\* selected component has exactly one outcome, for all three sequencers.
C5_AsStated ==
    /\ Keys(results) \subseteq Range(selected_components)
    /\ Keys(install_results) \subseteq Range(selected_components)
    /\ NoDup(Invoked) /\ NoDup(KeySeq(results)) /\ NoDup(KeySeq(install_results))
    /\ Finished => /\ Keys(install_results) = Range(selected_components)
                   /\ Len(install_results) = Len(selected_components)

\* C5 (amended): the same, except that a Remote-Unix run whose sync failed
\* delivers the Result Map {"sync": False}, with no component invoked or recorded;
\* every other run that delivers its Result Map has invoked every selected
\* component once and holds exactly one outcome for each.
C5_KeysWithinSelection ==
    /\ Keys(results) \subseteq Range(selected_components)
    /\ NoDup(Invoked) /\ NoDup(KeySeq(results)) /\ NoDup(KeySeq(install_results))
    /\ Range(Invoked) \subseteq Range(selected_components)
    /\ IF SyncHasFailed
       THEN install_results = SyncSentinel /\ Invoked = <<>> /\ results = EmptyDict
       ELSE /\ Keys(install_results) \subseteq Range(selected_components)
            /\ Finished => /\ Keys(install_results) = Range(selected_components)
                           /\ Len(install_results) = Len(selected_components)
                           /\ Invoked = selected_components

\* a finished Windows run of all five bundles
C5_Witness ==
    /\ sequencer = "windows" /\ Finished
    /\ Len(install_results) = Len(WINDOWS_COMPONENTS)

\* C6: in run_windows_setup, whatever outcome is recorded for debloat,
\* telemetry, system or vscode is True, whatever the bundle's commands returned.
C6_BestEffortBundlesTrue ==
    sequencer = "windows" =>
        \A d \in {results, install_results} : \A n \in DOMAIN d :
            d[n].k \in {"debloat", "telemetry", "system", "vscode"} => d[n].v = TRUE

\* debloat has been recorded after every one of its removal commands failed
C6_Witness ==
    /\ sequencer = "windows"
    /\ j > Len(bloatware_apps) /\ removed = 0
    /\ HasKey(results, "debloat") /\ ValueOf(results, "debloat") = TRUE

\* C7: once the chrome bundle is over, chrome's outcome is True, after a
\* successful and after a failed winget command alike; no Result Map a run
\* delivers maps chrome to False.
C7_ChromeEndsTrue ==
    sequencer = "windows" =>
        /\ (pc # "chrome_check" /\ HasKey(results, "chrome")) => ValueOf(results, "chrome")
        /\ HasKey(install_results, "chrome") => ValueOf(install_results, "chrome")

\* the chrome bundle has just ended after a winget command that failed
C7_Witness ==
    /\ sequencer = "windows" /\ pc = "w_loop" /\ i > 1
    /\ selected_components[i - 1] = "chrome"
    /\ success = FALSE
    /\ HasKey(results, "chrome") /\ ValueOf(results, "chrome") = TRUE

\* C8 as stated: for an extensions file of 12 entries, 2 of them comment lines
\* and 1 blank, the vscode bundle issues exactly 10 install commands.
C8_AsStated ==
    (ExtensionsInstalled /\ TwelveEntriesTwoCommentsOneBlank(extFile)) =>
        Len(issued) = 10

\* C8 (amended): for such a file the vscode bundle issues exactly 9 install
\* commands, one for each of the 9 entries that are neither comment nor blank,
\* in file order.
C8_NineOfTwelveEntries ==
    (ExtensionsInstalled /\ TwelveEntriesTwoCommentsOneBlank(extFile)) =>
        /\ Len(issued) = 9
        /\ issued = UsableIds(extFile)

C8_Witness ==
    /\ ExtensionsInstalled /\ TwelveEntriesTwoCommentsOneBlank(extFile)
    /\ Len(issued) = 9

\* C9: with k the number of usable lines of the extensions file, the vscode
\* bundle issues install commands for the ids of the first min(10, k) usable
\* lines, in file order, trailing comment and white space stripped, and for
\* nothing else: never an empty id, never an eleventh; whatever winget returned.
C9_AtMostTenExtensions ==
    (sequencer = "windows" /\ pc \in {"vscode_ext", "vscode_done"}) =>
        LET ids  == UsableIds(extFile)
            want == SubSeq(ids, 1, IF Len(ids) < 10 THEN Len(ids) ELSE 10)
        IN  /\ IsPrefix(issued, want)
            /\ pc = "vscode_done" => issued = want
            /\ \A n \in DOMAIN issued : issued[n] # <<>>

\* ten commands issued for a file with more than ten usable lines, after a
\* failed winget install
C9_Witness ==
    /\ ExtensionsInstalled /\ success = FALSE
    /\ Len(UsableIds(extFile)) > 10
    /\ Len(issued) = 10

\* C10: medium expands to exactly zsh, vim, tmux, git, editorconfig, each once;
\* every profile is duplicate-free and within the COMPONENTS catalogue; and
\* minimal is strictly inside medium, medium strictly inside full.
C10_ProfileCatalogue ==
    /\ Range(PROFILES["medium"]) = {"zsh", "vim", "tmux", "git", "editorconfig"}
    /\ Len(PROFILES["medium"]) = 5
    /\ \A p \in DOMAIN PROFILES :
         NoDup(PROFILES[p]) /\ Range(PROFILES[p]) \subseteq Range(COMPONENTS)
    /\ Range(PROFILES["minimal"]) \subseteq Range(PROFILES["medium"])
    /\ Range(PROFILES["minimal"]) # Range(PROFILES["medium"])
    /\ Range(PROFILES["medium"]) \subseteq Range(PROFILES["full"])
    /\ Range(PROFILES["medium"]) # Range(PROFILES["full"])
    /\ (profile = "medium" /\ sequencer # "none") =>
         /\ Range(selected_components) = {"zsh", "vim", "tmux", "git", "editorconfig"}
         /\ Len(selected_components) = 5

\* a finished remote run of the medium profile
C10_Witness ==
    /\ profile = "medium" /\ sequencer = "unix" /\ Finished
    /\ Len(install_results) = 5

(***************************************************************************)
(* Vocabulary of the properties on the runners and the screens.            *)
(***************************************************************************)
\* the latest Process Runner call found no executable to start: it got as far
\* as Popen, which raised FileNotFoundError
ExecutableNotFound ==
    /\ sequencer \in {"local", "unix"}
    /\ Invoked # <<>> /\ pc # "wait"
    /\ ~process.started
    /\ ~(sequencer = "unix" /\ InvalidConfig(selected_machine))

\* a line that names a program
NamesDependency(line) == \E n \in DOMAIN line : line[n] \in {"bash", "ssh", "SSH", "sshpass"}

\* the lines of a stream as the callback receives them
Stripped(out) == [n \in DOMAIN out |-> RStrip(out[n])]

\* a child started by run_remote_command or run_ssh is running
RemoteCommandRunning ==
    \/ sequencer = "unix" /\ pc = "wait"
    \/ sequencer = "windows" /\ running /\ pc \notin {"vscode_scp1", "vscode_scp2"}

\* the password of the selected machine, None without one
Password == Get(selected_machine, "password", None)

\* an os tag that reads "windows" when case is ignored
IsWindowsTag(os) == os \in {"windows", "Windows", "WINDOWS"}

\* the app is on the Windows path / on the Remote-Unix path
OnWindowsPath ==
    screen \in {"windows_component", "windows_progress"} \/ sequencer = "windows"
OnUnixPath ==
    screen \in {"remote_profile", "remote_progress"} \/ sequencer = "unix"

\* the text of the warning for an empty selection
SelectWarning == "Please select at least one component"

(***************************************************************************)
(* Properties of the registry loader, the runners and the screens.         *)
(***************************************************************************)
\* C11: whatever machines.yaml holds (missing, unreadable, malformed, empty,
\* a top level that is no mapping, a "machines" key that is null or no
\* mapping), load_machines returns a mapping: a value its callers can take
\* the length of and iterate as name/info pairs.
C11_LoadMachinesReturnsMapping == HasLen(machines) /\ HasItems(machines)

\* C12: a Process Runner call, local or remote, whose executable cannot be
\* located raises nothing: it has returned False, has called the line callback
\* exactly once, with a line naming the missing program, and the sequencer
\* goes on.
C12_MissingExecutableReturnsFalse ==
    ExecutableNotFound =>
        /\ pc # "crashed"
        /\ returned = <<FALSE>>
        /\ Len(log) = 1 /\ NamesDependency(log[1])

\* C13: a Process Runner call that spawned its process passes the process's
\* lines to the callback one by one in the order they were written; when it
\* has returned, the process has terminated, the value returned is TRUE
\* exactly for exit code 0, and every line has been passed on, once.
C13_RunnerWaitsAndRelaysLines ==
    (sequencer \in {"local", "unix"} /\ process.started) =>
        /\ IsPrefix(log, Stripped(process.out))
        /\ returned # <<>> =>
             /\ Terminated(process)
             /\ returned[1] = (process.code = 0)
             /\ log = Stripped(process.out)
             /\ children = <<>>

\* a call has returned after relaying two different lines
C13_Witness ==
    /\ sequencer \in {"local", "unix"} /\ process.started
    /\ returned # <<>>
    /\ Len(log) = 2 /\ log[1] # log[2]

\* C14: while a command of run_remote_command or of a Windows bundle runs, its
\* argv starts with sshpass -p <password> exactly when the selected machine
\* has a non-empty password, and with ssh otherwise; ssh is followed by -o
\* StrictHostKeyChecking=no and the target <user>@<host> of that machine.
C14_SshpassIffPassword ==
    RemoteCommandRunning =>
        \A n \in DOMAIN children :
            LET argv == children[n]
                k == IF Truthy(Password) THEN 4 ELSE 1
            IN  /\ (argv[1] = "sshpass") <=> Truthy(Password)
                /\ Truthy(Password) => argv[2] = "-p" /\ argv[3] = Password
                /\ argv[k] = "ssh"
                /\ argv[k + 1] = "-o" /\ argv[k + 2] = "StrictHostKeyChecking=no"
                /\ argv[k + 3] = <<Get(selected_machine, "user", ""), "@",
                                   Get(selected_machine, "host", "")>>

\* a Windows bundle's command runs through sshpass
C14_Witness ==
    /\ sequencer = "windows" /\ RemoteCommandRunning
    /\ children # <<>> /\ children[1][1] = "sshpass"

\* C15: a confirmation with nothing selected, in ComponentScreen or in
\* WindowsComponentScreen, raises the warning, leaves the screen where it is,
\* starts no sequencer and no subprocess, and leaves selected_components,
\* install_mode, install_results, selected_machine and target_mode as they were.
C15_EmptySelectionRejected ==
    [][(screen \in {"component", "windows_component"} /\ selected_components' = <<>>) =>
           /\ warning' = SelectWarning
           /\ screen' = screen
           /\ sequencer' = "none" /\ pc' = "idle"
           /\ children' = <<>>
           /\ UNCHANGED appVars]_vars

\* an empty Windows selection has just been rejected
C15_Witness ==
    /\ screen = "windows_component" /\ warning = SelectWarning
    /\ DOMAIN selected_machine # {}

\* C16: at any moment of a run at most one child process has been started and
\* not yet waited for.
C16_OneChildAtATime == Len(children) <= 1

\* a Remote-Unix run's ssh command runs, after its rsync has terminated
C16_Witness ==
    /\ sequencer = "unix" /\ pc = "wait"
    /\ Len(children) = 1 /\ children[1][1] \in {"ssh", "sshpass"}

\* C17: a run whose sync tool was missing (the shell reported that it could
\* not find rsync) still attempts every selected component, and its Result
\* Map holds an outcome for each of them.
C17_MissingSyncToolDoesNotAbort ==
    (Finished /\ sequencer = "unix" /\ returncode = CommandNotFound) =>
        /\ Invoked = selected_components
        /\ Keys(install_results) = Range(selected_components)

\* C18: once a machine is selected the app is on the Windows path exactly
\* when the machine's os tag reads "windows" ignoring case, and on the
\* Remote-Unix path otherwise (no tag, an empty, a null or any other tag); the
\* selection never fails.
C18_DispatchByOsTag ==
    (target_mode = "remote" /\ DOMAIN selected_machine # {}) =>
        /\ screen # "traceback"
        /\ IF IsWindowsTag(Get(selected_machine, "os", ""))
           THEN OnWindowsPath
           ELSE OnUnixPath

\* C19: in a deploy to a machine with a password, every child process goes
\* through sshpass: the rsync of the Remote-Unix run and the scp copies of the
\* vscode bundle as well as the ssh commands.
C19_EveryRemoteChildUsesSshpass ==
    (sequencer \in {"unix", "windows"} /\ Truthy(Password)) =>
        \A n \in DOMAIN children : children[n][1] = "sshpass"

\* C20: when every child process terminates, a run that has started goes on
\* to store its Result Map and push the CompleteScreen.
C20_StartedRunCompletes == (pc = "start") ~> Finished

\* the name the handler takes out of the button id compose made for `name`
RecoveredName(name) == Replace(button_id(name), MachinePrefix)

\* the fields of a registry entry that a selection carries
MachineFields == {"user", "host", "password", "os"}

\* C21: for every machine name in the registry, pressing that machine's button
\* selects exactly that registry entry: the name recovered from the button id
\* "machine-<name>" equals the original name (also when the name itself
\* contains the text "machine-"), selected_machine holds that entry's user,
\* host, password and os, and its "name" field equals the registry key.
C21_ButtonSelectsItsEntry ==
    [][\A name \in DOMAIN machines.entries :
         MachineButtonPressed(name) =>
            /\ RecoveredName(name) = Spell[name]
            /\ \A field \in MachineFields :
                  Get(selected_machine', field, "<absent>")
                     = Get(machines.entries[name], field, "<absent>")
            /\ Get(selected_machine', "name", "<absent>") = Spell[name]]_vars

\* the ids of the five Windows bundles
KnownIds == Range(WINDOWS_COMPONENTS)

\* the elements of a list, each once, in the order of their first occurrence
RECURSIVE FirstOccurrences(_)
FirstOccurrences(s) ==
    IF s = <<>> THEN <<>>
    ELSE LET front == FirstOccurrences(SubSeq(s, 1, Len(s) - 1))
             last  == s[Len(s)]
         IN  IF last \in Range(front) THEN front ELSE Append(front, last)

\* the given components that are among the five, in first-occurrence order
KnownOf(components) ==
    LET IsKnown(c) == c \in KnownIds
    IN  FirstOccurrences(SelectSeq(components, IsKnown))

\* the loop of run_windows_setup is about to take a component outside the five
AtUnknownComponent ==
    /\ sequencer = "windows" /\ pc = "w_loop"
    /\ i \in DOMAIN selected_components
    /\ selected_components[i] \notin KnownIds

\* C22: run_windows_setup processes the given components in list order and its
\* Result Map's keys are exactly the given components that are among debloat,
\* telemetry, system, chrome, vscode, in first-occurrence order; a component id
\* outside these five issues no remote command and records no outcome (neither
\* true nor false), so for such input the Result Map's key set is a strict
\* subset of the selection.
C22_UnknownIdsLeaveNoOutcome ==
    /\ [](/\ Invoked = SubSeq(selected_components, 1, Len(Invoked))
          /\ IsPrefix(KeySeq(results), KnownOf(selected_components))
          /\ Finished =>
                /\ Invoked = selected_components
                /\ KeySeq(install_results) = KnownOf(selected_components)
                /\ (Range(selected_components) \ KnownIds # {}) =>
                      /\ Keys(install_results) \subseteq Range(selected_components)
                      /\ Keys(install_results) # Range(selected_components))
    /\ [][AtUnknownComponent =>
            /\ children' = children /\ running' = running
            /\ results' = results
            /\ Invoked' = Append(Invoked, selected_components[i])]_vars

\* a call with an unknown id and a bundle has returned a non-empty Result Map
C22_Witness ==
    /\ Finished
    /\ Range(selected_components) \ KnownIds # {}
    /\ install_results # EmptyDict

=============================================================================
